---- MODULE Spec2Model ----
(***************************************************************************)
(* Network Mystic (src/main.py): the entity registry fed by scan_spirits,  *)
(* the glyph animation of NetworkEntity.update_glyphs, the curses renderer *)
(* draw_veil and the event loop run_ritual.                                *)
(*                                                                         *)
(* Floats are modelled as exact rationals <<n, d>> (d > 0, lowest terms).  *)
(* Wall-clock time is an integer number of seconds.  Message texts keep    *)
(* their fixed part; the formatted timestamps are left out.                *)
(***************************************************************************)
EXTENDS Integers, Sequences, FiniteSets, TLC

\* ------------------------------------------------------------------ bounds
MaxTime == 3
MaxCycles == 3
MaxKeys == 1
MaxTicks == 4

\* ------------------------------------------------------- exact arithmetic
Abs(i) == IF i < 0 THEN -i ELSE i

RECURSIVE GCD(_, _)
GCD(a, b) == IF b = 0 THEN a ELSE GCD(b, a % b)

\* the rational n/d in lowest terms with a positive denominator
Rat(n, d) ==
    LET s == IF d < 0 THEN -1 ELSE 1
        g == GCD(Abs(n), Abs(d))
    IN  <<(s * n) \div g, (s * d) \div g>>

RatInt(i) == <<i, 1>>
RatAdd(a, b) == Rat(a[1] * b[2] + b[1] * a[2], a[2] * b[2])
RatMul(a, b) == Rat(a[1] * b[1], a[2] * b[2])
RatDiv(a, b) == Rat(a[1] * b[2], a[2] * b[1])
RatLt(a, b) == a[1] * b[2] < b[1] * a[2]
RatLe(a, b) == a[1] * b[2] <= b[1] * a[2]
RatMin(a, b) == IF RatLt(b, a) THEN b ELSE a
\* int(x): truncation toward zero
RatTrunc(a) == IF a[1] >= 0 THEN a[1] \div a[2] ELSE -((-a[1]) \div a[2])

Zero == RatInt(0)

\* random.uniform(a, b) for the draw r of random(), 0 <= r < 1: a + (b - a) * r
uniform(a, b, r) == RatAdd(a, RatMul(RatAdd(b, Rat(-a[1], a[2])), r))

\* ------------------------------------------------------------------ glyphs
\* the display characters update_glyphs draws from, by glyph type
Alphabet(type) ==
    CASE type = "flow"    -> <<"NE", "SE", "NW", "SW", "UD", "LR">>
      [] type = "pulse"   -> <<"black_circle", "white_circle", "bullseye", "fisheye", "circled_dot">>
      [] type = "whisper" -> <<"ellipsis", "tilde", "vertical_ellipsis", "midline_ellipsis">>
      [] type = "shadow"  -> <<"light_shade", "medium_shade", "dark_shade", "quadrant_a", "quadrant_b">>
      [] type = "echo"    -> <<"circled_bullet", "cw_gapped", "ccw_gapped", "cw_open", "ccw_open">>

\* random.choice(seq) with the generator's draw k
Choice(seq, k) == seq[(k % Len(seq)) + 1]

\* a Glyph as constructed by update_glyphs: age 0 and char " " by default
Glyph(type, intensity, position, color_pair) ==
    [type |-> type, intensity |-> intensity, position |-> position,
     age |-> 0, char |-> " ", color_pair |-> color_pair]

DECAY == <<19, 20>>
FADE_THRESHOLD == <<1, 10>>
FLOW_CHANCE == <<3, 10>>
WHISPER_CHANCE == <<1, 5>>
MAX_FLOW == 1000
MAX_WHISPERS == 5

\* ----------------------------------------------------------- NetworkEntity
\* NetworkEntity.__init__: draw cd gives the random name, aura and essence
NetworkEntity(interface, cd, t) ==
    [name |-> cd.name, interface |-> interface,
     rx_bytes |-> 0, tx_bytes |-> 0, rx_rate |-> Zero, tx_rate |-> Zero,
     essence |-> cd.essence, aura |-> cd.aura, glyphs |-> <<>>,
     last_seen |-> t, whispers |-> <<>>]

\* an add_whisper that drops the new message once the list is full
add_whisper_keeping_oldest(e, message) ==
    [e EXCEPT !.whispers = IF Len(@) >= 5 THEN @ ELSE Append(@, message)]

\* NetworkEntity.add_whisper
add_whisper(e, message) ==
    LET w == Append(e.whispers, message)
    IN  [e EXCEPT !.whispers = IF Len(w) > MAX_WHISPERS THEN Tail(w) ELSE w]

\* a decay loop that ages a glyph and leaves its intensity as it was
AgeOnly(g, k) ==
    [g EXCEPT !.age = g.age + 1, !.char = Choice(Alphabet(g.type), k)]

\* the decay loop of update_glyphs applied to one glyph
DecayGlyph(g, k) ==
    [g EXCEPT !.age = g.age + 1,
              !.intensity = RatMul(g.intensity, DECAY),
              !.char = Choice(Alphabet(g.type), k)]

Survives(g) == RatLt(FADE_THRESHOLD, g.intensity)

\* an update_glyphs that decides both spawns by the first trial
update_glyphs_one_trial(e, gd) ==
    LET decayed == [i \in 1..Len(e.glyphs) |->
                      [e.glyphs[i] EXCEPT !.age = @ + 1, !.intensity = RatMul(@, <<19, 20>>),
                                          !.char = Choice(Alphabet(e.glyphs[i].type), gd.char + i)]]
        active == SelectSeq(decayed, LAMBDA g : RatLt(<<1, 10>>, g.intensity))
        flow_intensity == RatDiv(RatMin(RatAdd(e.rx_rate, e.tx_rate), RatInt(1000)), RatInt(1000))
    IN  [e EXCEPT !.glyphs =
           IF RatLt(gd.r_flow, RatMul(flow_intensity, <<3, 10>>))
           THEN active \o <<Glyph("flow", flow_intensity, gd.flow_pos, gd.flow_color),
                            Glyph("whisper", e.essence, gd.whisper_pos, gd.whisper_color)>>
           ELSE active]

\* NetworkEntity.update_glyphs; gd holds the draws of the random generator:
\* char (re-skin), r_flow and r_whisper (the two random() trials), and the
\* position and colour of each spawned glyph
update_glyphs(e, gd) ==
    LET decayed == [i \in 1..Len(e.glyphs) |-> DecayGlyph(e.glyphs[i], gd.char + i)]
        active == SelectSeq(decayed, Survives)
        flow_intensity ==
            RatDiv(RatMin(RatAdd(e.rx_rate, e.tx_rate), RatInt(MAX_FLOW)), RatInt(MAX_FLOW))
        withFlow ==
            IF RatLt(gd.r_flow, RatMul(flow_intensity, FLOW_CHANCE))
            THEN Append(active, Glyph("flow", flow_intensity, gd.flow_pos, gd.flow_color))
            ELSE active
        withWhisper ==
            IF RatLt(gd.r_whisper, RatMul(e.essence, WHISPER_CHANCE))
            THEN Append(withFlow, Glyph("whisper", e.essence, gd.whisper_pos, gd.whisper_color))
            ELSE withFlow
    IN  [e EXCEPT !.glyphs = withWhisper]

\* --------------------------------------------------------- name generation
SpiritNames(interface) ==
    CASE interface \in {"eth0", "eth1"} -> <<"Silent River", "Whispering Wind", "Ethereal Flow">>
      [] interface = "wlan0" -> <<"Air Spirit", "Cloud Dancer", "Sky Whisper">>
      [] interface = "lo" -> <<"Inner Echo", "Soul Mirror", "Self Reflection">>
      [] OTHER -> <<"Whispering", "Echoing", "Veiled", "the Observer", "the Watcher", "the Listener">>

\* NetworkEntity._generate_spirit_name: the chosen words joined with the interface
_generate_spirit_name(interface, k) ==
    [spirit |-> Choice(SpiritNames(interface), k), interface |-> interface]

Auras ==
    <<"Pale Blue Mist", "Flickering Shadow", "Soft Golden Glow", "Deep Ocean Haze",
      "Forest Whisper Green", "Twilight Purple", "Dawn Orange", "Dusk Red",
      "Moon Silver", "Sun Gold">>

\* NetworkEntity._generate_aura
_generate_aura(k) == Choice(Auras, k)

\* ------------------------------------------------------- WhisperCollector
\* a message that names no spirit
NoName == [spirit |-> "", interface |-> ""]

WHISPER_LOG_MAX == 100

\* WhisperCollector.add_whisper on a deque(maxlen=100)
log_whisper(log, source, message, about, level) ==
    LET w == Append(log, [source |-> source, msg |-> message, about |-> about, level |-> level])
    IN  IF Len(w) > WHISPER_LOG_MAX THEN Tail(w) ELSE w

\* WhisperCollector.get_recent_whispers
get_recent_whispers(log, count) ==
    IF Len(log) <= count THEN log ELSE SubSeq(log, Len(log) - count + 1, Len(log))

\* ------------------------------------------------------------ scan_spirits
\* The status message scan_spirits selects by the rate thresholds
RateWhisper(e) ==
    IF RatLt(RatInt(1000000), e.rx_rate) THEN add_whisper(e, "Great flow from beyond")
    ELSE IF RatLt(e.rx_rate, RatInt(1000)) /\ RatLt(e.tx_rate, RatInt(1000))
         THEN add_whisper(e, "Resting in silence")
    ELSE IF RatLt(RatMul(e.tx_rate, RatInt(2)), e.rx_rate)
         THEN add_whisper(e, "Listening more than speaking")
    ELSE IF RatLt(RatMul(e.rx_rate, RatInt(2)), e.tx_rate)
         THEN add_whisper(e, "Whispering to the void")
    ELSE e

\* a sample that resets the rates when no time has passed
ApplySampleZeroing(e, row, current_time, lastUpdate) ==
    LET time_diff == current_time - lastUpdate
    IN  [e EXCEPT !.last_seen = current_time,
                  !.rx_rate = IF time_diff > 0 THEN Rat(row.rx - e.rx_bytes, time_diff) ELSE Zero,
                  !.tx_rate = IF time_diff > 0 THEN Rat(row.tx - e.tx_bytes, time_diff) ELSE Zero,
                  !.rx_bytes = row.rx, !.tx_bytes = row.tx]

\* a sample that picks the aura of the entity again, by the clock
ApplySampleRelabelling(e, row, current_time, lastUpdate) ==
    [e EXCEPT !.last_seen = current_time, !.rx_bytes = row.rx, !.tx_bytes = row.tx,
              !.aura = _generate_aura(current_time)]

\* lines 336-345: the sample applied to a tracked entity
ApplySample(e, row, current_time, lastUpdate) ==
    LET time_diff == current_time - lastUpdate
        seen == [e EXCEPT !.last_seen = current_time]
        rated == IF time_diff > 0
                 THEN [seen EXCEPT !.rx_rate = Rat(row.rx - e.rx_bytes, time_diff),
                                   !.tx_rate = Rat(row.tx - e.tx_bytes, time_diff)]
                 ELSE seen
    IN  [rated EXCEPT !.rx_bytes = row.rx, !.tx_bytes = row.tx]

\* a skip test that filters no interface
SkippedBlankOnly(row, show_loopback) == row.kind = "blank"

\* lines 310-319: the lines the loop passes over before it notes the interface:
\* no name before a colon, or lo while loopback is hidden
Skipped(row, show_loopback) ==
    row.kind = "blank" \/ (row.iface = "lo" /\ ~show_loopback)

\* One line of /proc/net/dev run through the loop body of scan_spirits.
\* st = [entities, order, log, found, sampled, fresh, raised]; a row is
\* [iface, kind, rx, tx] with kind "ok", "short" (fewer than 16 fields),
\* "bad" (a counter field int() rejects) or "blank" (no name before a colon).
ScanRow(st, row, cd, gd, current_time, lastUpdate, show_loopback) ==
    IF Skipped(row, show_loopback) THEN st
    ELSE IF row.kind = "short" THEN [st EXCEPT !.found = @ \cup {row.iface}]
    ELSE IF row.kind = "bad" THEN [st EXCEPT !.found = @ \cup {row.iface}, !.raised = TRUE]
    ELSE
      LET isNew == row.iface \notin DOMAIN st.entities
          spirit == IF isNew
                    THEN NetworkEntity(row.iface,
                           [name |-> _generate_spirit_name(row.iface, cd.name),
                            aura |-> _generate_aura(cd.aura), essence |-> cd.essence],
                           current_time)
                    ELSE st.entities[row.iface]
          e == update_glyphs(RateWhisper(ApplySample(spirit, row, current_time, lastUpdate)), gd)
      IN  [entities |-> (row.iface :> e) @@ st.entities,
           order |-> IF isNew THEN Append(st.order, row.iface) ELSE st.order,
           log |-> IF isNew
                   THEN log_whisper(st.log, "Veil", "has appeared", spirit.name, "SPIRIT")
                   ELSE st.log,
           found |-> st.found \cup {row.iface},
           sampled |-> st.sampled \cup {row.iface},
           fresh |-> IF isNew THEN st.fresh \cup {row.iface} ELSE st.fresh,
           raised |-> FALSE]

\* the for loop over the lines; an exception ends it
RECURSIVE ScanRows(_, _, _, _, _, _, _, _)
ScanRows(st, rows, i, cds, gds, current_time, lastUpdate, show_loopback) ==
    IF i > Len(rows) \/ st.raised THEN st
    ELSE ScanRows(ScanRow(st, rows[i], cds[i], gds[i], current_time, lastUpdate, show_loopback),
                  rows, i + 1, cds, gds, current_time, lastUpdate, show_loopback)

\* an expiry that pops nothing
ExpireNothing(st, i) == st

\* lines 358-366: entities not found in this scan are popped, in dict order
RECURSIVE Expire(_, _)
Expire(st, i) ==
    IF i > Len(st.order) THEN [st EXCEPT !.order = SelectSeq(st.order, LAMBDA x : x \in st.found)]
    ELSE IF st.order[i] \in st.found THEN Expire(st, i + 1)
    ELSE Expire([st EXCEPT
                   !.entities = [x \in DOMAIN st.entities \ {st.order[i]} |-> st.entities[x]],
                   !.log = log_whisper(st.log, "Veil", "has faded",
                                       st.entities[st.order[i]].name, "SPIRIT")],
                i + 1)

\* an except clause that also empties the registry
FailedScanForgetting(st) ==
    [st EXCEPT !.raised = TRUE, !.entities = <<>>, !.order = <<>>,
               !.log = log_whisper(st.log, "Scanner", "Failed to scan", NoName, "ERROR")]

\* lines 368-369: the except clause of scan_spirits logs the error
FailedScan(st) ==
    [st EXCEPT !.raised = TRUE,
               !.log = log_whisper(st.log, "Scanner", "Failed to scan", NoName, "ERROR")]

\* scan_spirits on the file content dev: open() fails, or the data lines are read
scan_spirits(ents, ord, log, dev, cds, gds, current_time, lastUpdate, show_loopback) ==
    LET st0 == [entities |-> ents, order |-> ord, log |-> log, found |-> {},
                sampled |-> {}, fresh |-> {}, raised |-> FALSE]
    IN  IF ~dev.readable
        THEN FailedScan(st0)
        ELSE LET st == ScanRows(st0, dev.lines, 1, cds, gds, current_time, lastUpdate, show_loopback)
             IN  IF st.raised
                 THEN FailedScan(st)
                 ELSE Expire(st, 1)

\* ---------------------------------------------------------- text lengths
\* len() of the strings the program formats
StrLen(s) ==
    CASE s = "Silent River" -> 12
      [] s = "Whispering Wind" -> 15
      [] s = "Ethereal Flow" -> 13
      [] s = "Air Spirit" -> 10
      [] s = "Cloud Dancer" -> 12
      [] s = "Sky Whisper" -> 11
      [] s = "Inner Echo" -> 10
      [] s = "Soul Mirror" -> 11
      [] s = "Self Reflection" -> 15
      [] s = "Pale Blue Mist" -> 14
      [] s = "Flickering Shadow" -> 17
      [] s = "Soft Golden Glow" -> 16
      [] s = "Deep Ocean Haze" -> 15
      [] s = "Forest Whisper Green" -> 20
      [] s = "Twilight Purple" -> 15
      [] s = "Dawn Orange" -> 11
      [] s = "Dusk Red" -> 8
      [] s = "Moon Silver" -> 11
      [] s = "Sun Gold" -> 8
      [] s = "lo" -> 2
      [] s = "eth0" -> 4
      [] s = "eth1" -> 4
      [] s = "wlan0" -> 5
      [] s = "Great flow from beyond" -> 22
      [] s = "Resting in silence" -> 18
      [] s = "Listening more than speaking" -> 28
      [] s = "Whispering to the void" -> 22
      [] s = "Beginning the ritual..." -> 23
      [] s = "Ritual refreshed" -> 16
      [] s = "Loopback spirits shown" -> 22
      [] s = "Loopback spirits hidden" -> 23
      [] s = "Ancient script enabled" -> 22
      [] s = "Ancient script disabled" -> 23
      [] s = "has appeared" -> 12
      [] s = "has faded" -> 9
      [] s = "Failed to scan" -> 14
      [] s = "Ritual complete. Veil closing..." -> 32
      [] s = "Veil" -> 4
      [] s = "Scanner" -> 7
      [] s = "Mystic" -> 6
      [] s = "Ritual" -> 6
      [] s = "Archivist" -> 9
      [] s = "INFO" -> 4
      [] s = "SPIRIT" -> 6
      [] s = "ERROR" -> 5
      [] s = "MYSTIC" -> 6
      [] s = "[No physical form]" -> 18
      [] s = "192.168.1.10" -> 12
      [] s = "" -> 0
      [] OTHER -> 25

\* len(entity.name): "<spirit> (<interface>)"
NameLen(name) == StrLen(name.spirit) + StrLen(name.interface) + 3

\* len(s[:k])
SliceLen(n, k) == IF k >= 0 THEN (IF n < k THEN n ELSE k) ELSE (IF n + k > 0 THEN n + k ELSE 0)

\* the element of a one-element set: Pick({F(x) : x \in {e}}) is F(e) with e
\* evaluated once
Pick(S) == CHOOSE x \in S : TRUE

Max(a, b) == IF a > b THEN a ELSE b
Min(a, b) == IF a < b THEN a ELSE b

RECURSIVE Digits(_, _)
\* the number of digits of n > 0 in the given base (1 for n = 0)
Digits(n, base) == IF n < base THEN 1 ELSE 1 + Digits(n \div base, base)

\* len(AncientScript.encode_number(v)) for the integer part n of v
encode_number_len(n) == IF n < 1 THEN 1 ELSE Digits(n, 20)

\* len(AncientScript.encode_rate(rate)): the symbol, a space and the unit
encode_rate_len(rate) ==
    LET n == RatTrunc(rate)
        giga == n \div 1073741824
    IN  IF giga >= 1024 THEN encode_number_len(giga \div 1024) + 5
        ELSE IF giga >= 1 THEN encode_number_len(giga) + 5
        ELSE IF n >= 1048576 THEN encode_number_len(n \div 1048576) + 5
        ELSE IF n >= 1024 THEN encode_number_len(n \div 1024) + 5
        ELSE IF n >= 1 THEN encode_number_len(n) + 4
        ELSE 5

\* len(f"{rate:.1f}"): sign, integer digits, point and one decimal
FixedLen(rate) ==
    LET neg == rate[1] < 0
        m == Abs(rate[1])
        tenths == (20 * m + rate[2]) \div (2 * rate[2])
    IN  (IF neg /\ tenths > 0 THEN 1 ELSE 0) + Digits(tenths \div 10, 10) + 2

RECURSIVE format_rate_from(_, _)
format_rate_from(rate, unit) ==
    IF RatLt(rate, RatInt(1024)) \/ unit = 5
    THEN FixedLen(rate) + 1 + (IF unit = 1 THEN 3 ELSE 4)
    ELSE format_rate_from(RatDiv(rate, RatInt(1024)), unit + 1)

\* len(NetworkMystic.format_rate(rate))
format_rate_len(rate) == format_rate_from(rate, 1)

RateLen(rate, ancient_script) ==
    IF ancient_script THEN encode_rate_len(rate) ELSE format_rate_len(rate)

\* len of a line of the global log: "[date time] [LEVEL] source: message"
LogLineLen(w) ==
    22 + StrLen(w.level) + 3 + StrLen(w.source) + 2
       + (IF w.source = "Veil" THEN 8 + NameLen(w.about) + 2 + StrLen(w.msg) ELSE StrLen(w.msg))

\* ------------------------------------------------------------ the terminal
\* curses window.addstr(y, x, text) on a window of scr.height x scr.width:
\* the move fails outside the window; text wraps at the right margin and
\* the call raises curses.error once it runs past the bottom-right cell
\* (the characters that fit are still written).
InGrid(scr, y, x) == 0 <= y /\ y < scr.height /\ 0 <= x /\ x < scr.width

AddStrOK(scr, y, x, len) ==
    InGrid(scr, y, x) /\ y * scr.width + x + len < scr.height * scr.width

Write(y, x, len, what, who) == [y |-> y, x |-> x, len |-> len, what |-> what, who |-> who]

\* the writes that reach the grid: those whose target is inside it
Shown(scr, ws) == {w \in ws : InGrid(scr, w.y, w.x)}

\* ------------------------------------------------------- draw_veil_border
\* the addstr calls made for row y
BorderRow(scr, y) ==
    LET full == 2 + Max(0, scr.width - 2)
    IN  IF y = 0 THEN {Write(0, 0, full, "border_top", "")}
        ELSE IF y = scr.height - 1 THEN {Write(y, 0, full, "border_bottom", "")}
        ELSE {Write(y, 0, 1, "border_left", "")}
             \cup (IF AddStrOK(scr, y, 0, 1)
                   THEN {Write(y, scr.width - 1, 1, "border_right", "")}
                   ELSE {})

draw_veil_border(scr) == Shown(scr, UNION {BorderRow(scr, y) : y \in 0..(scr.height - 1)})

\* ----------------------------------------------------------- render_glyph
\* the write of one glyph, attempted only inside COLS x LINES
render_glyph(scr, glyph, offset_x, offset_y, who) ==
    LET screen_x == offset_x + glyph.position[1]
        screen_y == offset_y + glyph.position[2]
    IN  IF InGrid(scr, screen_y, screen_x)
        THEN {Write(screen_y, screen_x, 1, "glyph", who)}
        ELSE {}

\* ---------------------------------------------- render_flow_visualization
BarHeight(rate) == Min(RatTrunc(RatMul(RatDiv(rate, RatInt(1000)), RatInt(5))), 5)

render_flow_visualization(rx_rate, tx_rate, x, y, who) ==
    [i \in 1..Max(0, BarHeight(rx_rate)) |->
        [w |-> Write(y + 4 - (i - 1), x, 1, "rx_bar", who), guarded |-> TRUE]]
    \o [i \in 1..Max(0, BarHeight(tx_rate)) |->
        [w |-> Write(y + 4 - (i - 1), x + 2, 1, "tx_bar", who), guarded |-> TRUE]]

\* ------------------------------------------------------- draw_spirit_info
IpDisplayLen(ips) ==
    IF Len(ips) = 0 THEN StrLen("[No physical form]")
    ELSE StrLen(ips[1]) * Len(ips) + 2 * (Len(ips) - 1)

\* The addstr calls of draw_spirit_info in program order, up to the bottom
\* line.  guarded = the call sits in a try/except of its own; the others are
\* covered only by the try/except around the whole function body.
BlockSteps(e, y_start, scr, ips, ancient_script) ==
    LET who == e.interface
        lines == <<
          [w |-> Write(y_start, 2, 3 + NameLen(e.name), "name", who), guarded |-> FALSE],
          [w |-> Write(y_start + 1, 2, 9 + StrLen(e.aura), "aura", who), guarded |-> FALSE],
          [w |-> Write(y_start + 2, 2, 16 + RateLen(e.rx_rate, ancient_script), "rx", who), guarded |-> FALSE],
          [w |-> Write(y_start + 3, 2, 16 + RateLen(e.tx_rate, ancient_script), "tx", who), guarded |-> FALSE],
          [w |-> Write(y_start + 4, 2, 16, "essence", who), guarded |-> FALSE],
          [w |-> Write(y_start + 5, 2, 9 + IpDisplayLen(ips), "form", who), guarded |-> FALSE] >>
        bars == render_flow_visualization(e.rx_rate, e.tx_rate, 40, y_start + 1, who)
        recent == get_recent_whispers(e.whispers, 2)
        y1 == y_start + 6
        len1 == IF Len(recent) >= 1 THEN 14 + StrLen(recent[1]) ELSE 0
        try1 == Len(recent) >= 1 /\ y1 < scr.height - 2
        y2 == IF try1 /\ AddStrOK(scr, y1, 2, len1) THEN y1 + 1 ELSE y1
        len2 == IF Len(recent) >= 2 THEN 14 + StrLen(recent[2]) ELSE 0
        try2 == Len(recent) >= 2 /\ y2 < scr.height - 2
        y3 == IF try2 /\ AddStrOK(scr, y2, 2, len2) THEN y2 + 1 ELSE y2
        msgs == (IF try1 THEN <<[w |-> Write(y1, 2, len1, "whisper", who), guarded |-> TRUE]>> ELSE <<>>)
                \o (IF try2 THEN <<[w |-> Write(y2, 2, len2, "whisper", who), guarded |-> TRUE]>> ELSE <<>>)
        bottom == <<[w |-> Write(y3, 2, 1 + Max(0, scr.width - 4), "bottom", who), guarded |-> TRUE]>>
    IN  lines \o bars \o msgs \o bottom

\* the glyph overlay of draw_spirit_info (lines 485-486)
GlyphOverlay(e, y_start, scr) ==
    UNION {render_glyph(scr, e.glyphs[i], 25, y_start - 4, e.interface) : i \in 1..Len(e.glyphs)}

\* the calls of the block that raise and sit in no try/except of their own
Raising(steps, scr) ==
    {i \in 1..Len(steps) :
        ~steps[i].guarded /\ ~AddStrOK(scr, steps[i].w.y, steps[i].w.x, steps[i].w.len)}

\* the calls `steps` run in order, and the first error of a call that is not
\* guarded leaves the body before the glyph overlay
RunSteps(steps, overlay, scr) ==
    LET bad == Raising(steps, scr)
        stop == IF bad = {} THEN Len(steps) ELSE CHOOSE i \in bad : \A j \in bad : i <= j
    IN  [writes |-> Shown(scr, {steps[i].w : i \in 1..stop})
                     \cup (IF bad = {} THEN overlay ELSE {}),
         exc |-> IF bad = {} THEN "none" ELSE "curses.error"]

\* the body of draw_spirit_info without its except clause
draw_spirit_info_body(e, y_start, scr, ips, ancient_script) ==
    Pick({RunSteps(steps, GlyphOverlay(e, y_start, scr), scr) :
            steps \in {BlockSteps(e, y_start, scr, ips, ancient_script)}})

\* a draw_spirit_info that lets the curses.error of its body out
draw_spirit_info_uncaught(e, y_start, scr, ips, ancient_script) ==
    draw_spirit_info_body(e, y_start, scr, ips, ancient_script)

\* draw_spirit_info: except curses.error: pass
draw_spirit_info(e, y_start, scr, ips, ancient_script) ==
    [draw_spirit_info_body(e, y_start, scr, ips, ancient_script) EXCEPT !.exc = "none"]

\* --------------------------------------------------------------- draw_veil
RateSum(e) == RatAdd(e.rx_rate, e.tx_rate)

\* insertion that keeps the earlier element first among equal keys
RECURSIVE InsertDesc(_, _, _)
InsertDesc(sorted, x, ents) ==
    IF Len(sorted) = 0 THEN <<x>>
    ELSE IF RatLt(RateSum(ents[Head(sorted)]), RateSum(ents[x]))
         THEN <<x>> \o sorted
         ELSE <<Head(sorted)>> \o InsertDesc(Tail(sorted), x, ents)

RECURSIVE SortFrom(_, _, _, _)
SortFrom(sorted, ord, i, ents) ==
    IF i > Len(ord) THEN sorted
    ELSE SortFrom(InsertDesc(sorted, ord[i], ents), ord, i + 1, ents)

\* the entities in dict order, not sorted
DictOrder(ents, ord) == ord

\* sorted(self.entities.values(), key=rx_rate + tx_rate, reverse=True)
SortSpirits(ents, ord) == SortFrom(<<>>, ord, 1, ents)

\* spirits[:max_spirits]
Visible(spirits, max_spirits) == SubSeq(spirits, 1, SliceLen(Len(spirits), max_spirits))

\* lines 523-531: the entity blocks; fr = [writes, blocks, y, exc]
RECURSIVE DrawSpirits(_, _, _, _, _, _, _)
DrawSpirits(fr, spirits, i, ents, scr, ips, ancient_script) ==
    IF i > Len(spirits) \/ fr.exc # "none" THEN fr
    ELSE IF fr.y < scr.height - 10
         THEN Pick({DrawSpirits([writes |-> fr.writes \cup r.writes,
                                 blocks |-> Append(fr.blocks, spirits[i]),
                                 y |-> fr.y + 9, exc |-> r.exc],
                                spirits, i + 1, ents, scr, ips, ancient_script) :
                      r \in {draw_spirit_info(ents[spirits[i]], fr.y, scr, ips[spirits[i]],
                                              ancient_script)}})
         ELSE DrawSpirits(fr, spirits, i + 1, ents, scr, ips, ancient_script)

RECURSIVE SumRates(_, _, _)
SumRates(ents, ord, field) ==
    IF Len(ord) = 0 THEN Zero
    ELSE RatAdd(IF field = "rx" THEN ents[Head(ord)].rx_rate ELSE ents[Head(ord)].tx_rate,
                SumRates(ents, Tail(ord), field))

\* draw_status_bar: one write in a try of its own
draw_status_bar(ents, ord, scr, ancient_script) ==
    LET full == 12 + RateLen(SumRates(ents, ord, "rx"), ancient_script) + 3
                   + RateLen(SumRates(ents, ord, "tx"), ancient_script)
                   + 12 + Digits(Len(ord), 10) + 3 + 3
        len == IF full > scr.width - 4 THEN SliceLen(full, scr.width - 4) ELSE full
        status_x == Max(0, (scr.width - len) \div 2)
    IN  Shown(scr, {Write(scr.height - 3, status_x, len, "status", "")})

\* draw_whispers_panel: every write in a try of its own
draw_whispers_panel(log, scr, show_whispers) ==
    IF ~show_whispers THEN {}
    ELSE LET panel_width == Min(50, scr.width - 2)
             panel_x == scr.width - panel_width - 1
             recent == get_recent_whispers(log, 8)
             end_y == Min(Len(recent) + 2, scr.height - 2)
         IN  Shown(scr,
               {Write(1, panel_x, 13, "panel_head", "")}
               \cup {Write(2 + (i - 1), panel_x,
                           1 + SliceLen(LogLineLen(recent[i]), panel_width - 2),
                           "panel_line", "") :
                       i \in {j \in 1..Len(recent) : j - 1 < scr.height - 4}}
               \cup {Write(y, panel_x + panel_width, 1, "panel_side", "") : y \in 1..(end_y - 1)}
               \cup {Write(end_y, panel_x, 1 + Max(0, panel_width), "panel_foot", "")})

\* lines 506-521: the border, the title and the clock
draw_veil_head(scr) ==
    LET time_x == scr.width - 3 - 2
    IN  draw_veil_border(scr)
        \cup Shown(scr, {Write(0, Max(0, (scr.width - 18) \div 2), 18, "title", "")})
        \cup (IF time_x > 0 THEN Shown(scr, {Write(0, time_x, 3, "mystic_time", "")}) ELSE {})

\* draw_veil: the frame it writes on screen scr; ips are the addresses
\* get_interface_ips returns for each interface
draw_veil(ents, ord, log, cfg, scr, ips) ==
    Pick({IF drawn.exc = "none"
          THEN [writes |-> draw_veil_head(scr) \cup drawn.writes
                              \cup draw_status_bar(ents, ord, scr, cfg.ancient_script)
                              \cup draw_whispers_panel(log, scr, cfg.show_whispers),
                blocks |-> drawn.blocks, raised |-> FALSE, refreshed |-> TRUE]
          ELSE \* except curses.error: pass
               [writes |-> draw_veil_head(scr) \cup drawn.writes, blocks |-> drawn.blocks,
                raised |-> drawn.exc # "curses.error", refreshed |-> FALSE] :
            drawn \in {DrawSpirits([writes |-> {}, blocks |-> <<>>, y |-> 2, exc |-> "none"],
                                   Visible(SortSpirits(ents, ord), cfg.max_spirits),
                                   1, ents, scr, ips, cfg.ancient_script)}})

\* ------------------------------------------------------------------- state
VARIABLES
    now,            \* the wall clock (time.time()), whole seconds
    entities,       \* NetworkMystic.entities: interface -> NetworkEntity
    order,          \* the insertion order of the entities dict
    whispers,       \* NetworkMystic.whispers: the global message log
    last_update,    \* NetworkMystic.last_update: the cycle timer
    running,        \* NetworkMystic.running
    config,         \* MysticConfig
    pc,             \* where main/run_ritual stands
    current_time,   \* run_ritual's local current_time of this iteration
    procNetDev,     \* the content of /proc/net/dev the latest scan read
    lastScan,       \* what the latest scan did: status, time_diff, sampled, fresh
    screen,         \* the terminal: [height, width]
    frame,          \* what the latest draw_veil produced
    saved,          \* the records appended to the log file
    keys,           \* the key presses getch has returned so far, in order
    rng,            \* the state of the random generator (module random)
    cycles,         \* sample cycles run so far
    signalled       \* a SIGINT or SIGTERM has been delivered to the handlers

vars == <<now, entities, order, whispers, last_update, running, config, pc,
          current_time, procNetDev, lastScan, screen, frame, saved, keys, rng, cycles,
          signalled>>

\* the domain state: the registry, the global log, the cycle timer, the flags
domain == <<entities, order, whispers, last_update, running, config>>

\* ------------------------------------------------------- inputs of the model

\* (rx_bytes, tx_bytes) readings; a later smaller one is a counter reset
Samples == {<<1000, 500>>, <<2000, 1500>>}

Row(iface, kind, rx, tx) == [iface |-> iface, kind |-> kind, rx |-> rx, tx |-> tx]

\* The file contents a scan may read: open() fails, or the data lines, lo
\* listed first as the kernel does.
DevContents ==
    {[readable |-> FALSE, lines |-> <<>>], [readable |-> TRUE, lines |-> <<>>]}
    \cup {[readable |-> TRUE, lines |-> <<r>>] :
            r \in {Row("eth0", "ok", s[1], s[2]) : s \in Samples} \cup {Row("eth0", "short", 0, 0)}}
    \cup {[readable |-> TRUE, lines |-> <<Row("lo", "ok", 1000, 500), r>>] :
            r \in {Row("eth0", "ok", 2000, 1500), Row("eth0", "bad", 0, 0)}}

\* the contents read in the runs that exercise the whole event loop: open()
\* fails, or two interfaces
DevFew ==
    {[readable |-> FALSE, lines |-> <<>>],
     [readable |-> TRUE, lines |-> <<Row("lo", "ok", 1000, 500), Row("eth0", "ok", 2000, 1500)>>]}

\* draws of the random generator in one update_glyphs call
NoSpawn == [char |-> 0, r_flow |-> <<99, 100>>, flow_pos |-> <<0, 0>>, flow_color |-> 1,
            r_whisper |-> <<99, 100>>, whisper_pos |-> <<0, 0>>, whisper_color |-> 1]
SpawnAll == [char |-> 1, r_flow |-> <<0, 1>>, flow_pos |-> <<20, 5>>, flow_color |-> 6,
             r_whisper |-> <<0, 1>>, whisper_pos |-> <<3, 2>>, whisper_color |-> 2]

\* The random generator is a deterministic stream behind an unknown seed.
\* What it yields from each of its states during one sample cycle: the draws
\* at the creation of an entity (name, aura, essence), in update_glyphs and
\* in perform_rituals (random() and the ritual chosen).
RngDraws ==
    <<[create |-> [name |-> 0, aura |-> 0, essence |-> uniform(<<1, 10>>, RatInt(1), <<4, 9>>)],
       glyph |-> NoSpawn, ritual |-> [r |-> <<1, 2>>, ritual |-> 1]],
      [create |-> [name |-> 1, aura |-> 7, essence |-> uniform(<<1, 10>>, RatInt(1), <<1, 90>>)],
       glyph |-> SpawnAll, ritual |-> [r |-> <<0, 1>>, ritual |-> 3]]>>

\* the state of the generator after a draw
RngNext(r) == (r % Len(RngDraws)) + 1

Keys == {"q", "space", "r", "l", "a"}
DefaultScreen == [height |-> 24, width |-> 80]

\* MysticConfig.__init__, with update_interval as load_from_file may set it
MysticConfig(interval) ==
    [update_interval |-> interval, show_whispers |-> TRUE, ancient_script |-> TRUE,
     log_file |-> "network_mysteries.log", max_spirits |-> 20, show_loopback |-> FALSE]

NoScan == [status |-> "none", time_diff |-> 0, sampled |-> {}, fresh |-> {}]
NoFrame == [writes |-> {}, blocks |-> <<>>, raised |-> FALSE, refreshed |-> FALSE]

\* main() up to mystic.start(): NetworkMystic.__init__ on the configuration
\* cfg and the signal handlers
Start(cfg) ==
    /\ now = 0
    /\ entities = <<>>
    /\ order = <<>>
    /\ whispers = <<>>
    /\ last_update = 0
    /\ running = FALSE
    /\ config = cfg
    /\ pc = "start"
    /\ current_time = 0
    /\ procNetDev = [readable |-> TRUE, lines |-> <<>>]
    /\ lastScan = NoScan
    /\ screen = DefaultScreen
    /\ frame = NoFrame
    /\ saved = <<>>
    /\ keys = <<>>
    /\ rng \in 1..Len(RngDraws)
    /\ cycles = 0
    /\ signalled = FALSE

\* main() with the default configuration
Init == Start(MysticConfig(1))

\* ---------------------------------------------------------- perform_rituals
RitualNames == <<"moon_cycle", "tide_change", "star_alignment", "wind_shift">>

perform_rituals(log, rd) ==
    IF RatLt(rd.r, <<1, 10>>)
    THEN log_whisper(log, "Ritual", Choice(RitualNames, rd.ritual), NoName, "MYSTIC")
    ELSE log

\* ------------------------------------------------------------------ actions
\* run_ritual lines 607-617
BeginRitual ==
    /\ pc = "start"
    /\ running' = TRUE
    /\ whispers' = log_whisper(whispers, "Mystic", "Beginning the ritual...", NoName, "INFO")
    /\ pc' = "loop"
    /\ UNCHANGED <<now, entities, order, last_update, config, current_time, procNetDev,
                   lastScan, screen, frame, saved, keys, rng, cycles, signalled>>

\* a key dispatch that has no quit key
DispatchIgnoringQuit(key) == UNCHANGED <<running, whispers, config, rng>>

\* the key dispatch of run_ritual, lines 623-636
Dispatch(key) ==
    CASE key = "q" ->
           /\ running' = FALSE
           /\ UNCHANGED <<whispers, config, rng>>
      [] key = "space" ->
           /\ whispers' = perform_rituals(whispers, RngDraws[rng].ritual)
           /\ rng' = RngNext(rng)
           /\ UNCHANGED <<running, config>>
      [] key = "r" ->
           /\ whispers' = log_whisper(whispers, "Mystic", "Ritual refreshed", NoName, "INFO")
           /\ UNCHANGED <<running, config, rng>>
      [] key = "l" ->
           /\ config' = [config EXCEPT !.show_loopback = ~@]
           /\ whispers' = log_whisper(whispers, "Mystic",
                             IF ~config.show_loopback THEN "Loopback spirits shown"
                             ELSE "Loopback spirits hidden", NoName, "INFO")
           /\ UNCHANGED <<running, rng>>
      [] key = "a" ->
           /\ config' = [config EXCEPT !.ancient_script = ~@]
           /\ whispers' = log_whisper(whispers, "Mystic",
                             IF ~config.ancient_script THEN "Ancient script enabled"
                             ELSE "Ancient script disabled", NoName, "INFO")
           /\ UNCHANGED <<running, rng>>
      [] OTHER -> UNCHANGED <<running, whispers, config, rng>>

\* One pass of the while loop up to the interval test (lines 619-641): the
\* while test, getch, the key dispatch, then the clock is read; getch and the
\* sleep that ended the pass before let time pass.  A pass whose cycle is not
\* due ends here with the sleep.
Poll(keyset) ==
    /\ pc = "loop"
    /\ running
    /\ \E key \in keyset \cup {"none"} :
         /\ key # "none" => Len(keys) < MaxKeys
         /\ keys' = IF key = "none" THEN keys ELSE Append(keys, key)
         /\ Dispatch(key)
    /\ \E d \in 0..1 :
         LET due == (now + d) - last_update >= config.update_interval
         IN  /\ now + d <= MaxTime
             /\ due => cycles < MaxCycles
             /\ now' = now + d
             /\ current_time' = now + d
             /\ pc' = IF due THEN "scan" ELSE "loop"
    /\ UNCHANGED <<entities, order, last_update, procNetDev, lastScan, screen, frame,
                   saved, cycles, signalled>>

\* lines 642-643: scan_spirits, which reads the clock itself, then
\* perform_rituals
Scan(devs) ==
    /\ pc = "scan"
    /\ \E dev \in devs, draws \in {RngDraws[rng]} :
         \E st \in {scan_spirits(entities, order, whispers, dev,
                                 [i \in 1..2 |-> draws.create], [i \in 1..2 |-> draws.glyph],
                                 now, last_update, config.show_loopback)} :
             /\ entities' = st.entities
             /\ order' = st.order
             /\ whispers' = perform_rituals(st.log, draws.ritual)
             /\ lastScan' = [status |-> IF st.raised THEN "error" ELSE "ok",
                             time_diff |-> now - last_update,
                             sampled |-> st.sampled, fresh |-> st.fresh]
             /\ procNetDev' = dev
    /\ rng' = RngNext(rng)
    /\ pc' = "draw"
    /\ cycles' = cycles + 1
    /\ UNCHANGED <<now, last_update, running, config, current_time, screen, frame, saved, keys, signalled>>

\* a draw_veil that animates the glyphs of the entities while it renders
DrawAnimating ==
    /\ pc = "draw"
    /\ frame' = draw_veil(entities, order, whispers, config, screen, [i \in DOMAIN entities |-> <<>>])
    /\ entities' = [i \in DOMAIN entities |-> update_glyphs(entities[i], SpawnAll)]
    /\ pc' = "stamp"
    /\ UNCHANGED <<now, order, whispers, last_update, running, config,
                   current_time, procNetDev, lastScan, screen, saved, keys, rng, cycles, signalled>>

\* line 644: draw_veil; it reads the registry and writes the frame
Draw ==
    /\ pc = "draw"
    /\ frame' = draw_veil(entities, order, whispers, config, screen, [i \in DOMAIN entities |-> <<>>])
    /\ pc' = "stamp"
    /\ UNCHANGED <<now, entities, order, whispers, last_update, running, config,
                   current_time, procNetDev, lastScan, screen, saved, keys, rng, cycles, signalled>>

\* an end of cycle that leaves the cycle timer as it was
StampKeepingTimer ==
    /\ pc = "stamp"
    /\ pc' = "loop"
    /\ UNCHANGED <<now, entities, order, whispers, last_update, running, config, current_time,
                   procNetDev, lastScan, screen, frame, saved, keys, rng, cycles, signalled>>

\* lines 645-647: the cycle timer is reset, then the sleep
Stamp ==
    /\ pc = "stamp"
    /\ last_update' = current_time
    /\ pc' = "loop"
    /\ UNCHANGED <<now, entities, order, whispers, running, config, current_time,
                   procNetDev, lastScan, screen, frame, saved, keys, rng, cycles, signalled>>

\* the handlers main() installs for SIGINT and SIGTERM
Signal ==
    /\ pc \in {"start", "loop", "scan", "draw", "stamp"}
    /\ running' = FALSE
    /\ signalled' = TRUE
    /\ UNCHANGED <<now, entities, order, whispers, last_update, config, pc, current_time,
                   procNetDev, lastScan, screen, frame, saved, keys, rng, cycles>>

\* the while test fails: run_ritual returns
ExitLoop ==
    /\ pc = "loop"
    /\ ~running
    /\ pc' = "cleanup"
    /\ UNCHANGED <<now, entities, order, whispers, last_update, running, config,
                   current_time, procNetDev, lastScan, screen, frame, saved, keys, rng, cycles, signalled>>

\* the record save_mysteries builds: one entry per entity in dict order,
\* and the last 10 lines of the global log
Snapshot(ents, ord, log) ==
    [total_spirits |-> Len(ord),
     mysteries |-> [j \in 1..Len(ord) |->
                      [spirit |-> ents[ord[j]].name, interface |-> ents[ord[j]].interface,
                       essence |-> ents[ord[j]].essence, aura |-> ents[ord[j]].aura,
                       total_rx |-> ents[ord[j]].rx_bytes, total_tx |-> ents[ord[j]].tx_bytes,
                       whispers |-> get_recent_whispers(ents[ord[j]].whispers, 5)]],
     system_whispers |-> get_recent_whispers(log, 10)]

\* save_mysteries: nothing without a log file; else the record is appended
\* to the file, or open() fails and the error is logged.  Gives the log and
\* the file after the call.
save_mysteries(ents, ord, log, cfg, file, writable) ==
    IF cfg.log_file = "" THEN [log |-> log, file |-> file]
    ELSE IF writable THEN [log |-> log, file |-> Append(file, Snapshot(ents, ord, log))]
    ELSE [log |-> log_whisper(log, "Archivist", "Failed to save", NoName, "ERROR"),
          file |-> file]

\* cleanup: the closing message, then save_mysteries
cleanup(ents, ord, log, cfg, file, writable) ==
    save_mysteries(ents, ord,
                   log_whisper(log, "Mystic", "Ritual complete. Veil closing...", NoName, "INFO"),
                   cfg, file, writable)

\* one call of cleanup on the way out, taking pc from `from` to `to`
RunCleanup(from, to) ==
    /\ pc = from
    /\ \E writable \in BOOLEAN :
         \E r \in {cleanup(entities, order, whispers, config, saved, writable)} :
            /\ whispers' = r.log
            /\ saved' = r.file
    /\ pc' = to
    /\ UNCHANGED <<now, entities, order, last_update, running, config, current_time,
                   procNetDev, lastScan, screen, frame, keys, rng, cycles, signalled>>

\* start(), lines 691-693: curses.wrapper has returned; finally: self.cleanup()
Cleanup == RunCleanup("cleanup", "atexit")

\* main() has returned: the interpreter runs the handler main registered
\* with atexit.register(mystic.cleanup)
AtExit == RunCleanup("atexit", "done")

\* the whole program: the event loop with the keyboard and the signals, and
\* the way out
Next ==
    \/ BeginRitual
    \/ Poll(Keys)
    \/ Scan(DevFew)
    \/ Draw
    \/ Stamp
    \/ Signal
    \/ ExitLoop
    \/ Cleanup
    \/ AtExit

Spec == Init /\ [][Next]_vars

\* the sample cycles alone: no signal arrives, and of the keys only l (the
\* loopback toggle) is pressed
NextRegistry ==
    \/ BeginRitual
    \/ Poll({"l"})
    \/ Scan(DevContents)
    \/ Draw
    \/ Stamp

\* a cycle at every pass of the loop (update_interval = 0), so that the scans
\* come at any times, two in the same second included
InitRegistry == Start(MysticConfig(0))

SpecRegistry == InitRegistry /\ [][NextRegistry]_vars

\* ------------------------------------------------------------- the way out
\* the steps the interpreter takes by itself, the draw apart: all but the
\* delivery of a signal
Advance ==
    \/ BeginRitual
    \/ Poll(Keys)
    \/ Scan(DevFew)
    \/ Stamp
    \/ ExitLoop
    \/ Cleanup
    \/ AtExit

\* control leaves line 644: the Draw steps, seen by the program counter
\* alone (Draw is possible exactly when pc = "draw")
DrawReturns == pc = "draw" /\ pc' = "stamp"

\* log_file as the default or emptied by load_from_file
InitShutdown ==
    \E f \in {"network_mysteries.log", ""} : Start([MysticConfig(1) EXCEPT !.log_file = f])

\* the interpreter keeps running the program: it does not stop for ever
\* before a step of the program that is possible
SpecShutdown == InitShutdown /\ [][Next]_vars /\ WF_vars(Advance) /\ WF_pc(DrawReturns)

\* ------------------------------------------- the messages of one entity
MaxAdds == 7

\* the messages scan_spirits adds to an entity (lines 347-354)
WhisperTexts ==
    {"Great flow from beyond", "Resting in silence", "Listening more than speaking",
     "Whispering to the void"}

\* an entity as NetworkEntity.__init__ leaves it, its message list empty
InitWhisper ==
    /\ entities = ("eth0" :> NetworkEntity("eth0", [name |-> _generate_spirit_name("eth0", 0),
                                                    aura |-> _generate_aura(0),
                                                    essence |-> <<1, 2>>], 0))
    /\ order = <<"eth0">>
    /\ pc = "whisper"
    /\ now = 0
    /\ whispers = <<>>
    /\ last_update = 0
    /\ running = TRUE
    /\ config = MysticConfig(1)
    /\ current_time = 0
    /\ procNetDev = [readable |-> TRUE, lines |-> <<>>]
    /\ lastScan = NoScan
    /\ screen = DefaultScreen
    /\ frame = NoFrame
    /\ saved = <<>>
    /\ keys = <<>>
    /\ rng = 1
    /\ cycles = 0
    /\ signalled = FALSE

\* one call of add_whisper on a tracked entity; cycles counts the calls
AddWhisper ==
    /\ pc = "whisper"
    /\ cycles < MaxAdds
    /\ \E i \in DOMAIN entities, message \in WhisperTexts :
         entities' = [entities EXCEPT ![i] = add_whisper(@, message)]
    /\ cycles' = cycles + 1
    /\ UNCHANGED <<now, order, whispers, last_update, running, config, pc, current_time,
                   procNetDev, lastScan, screen, frame, saved, keys, rng, signalled>>

SpecWhisper == InitWhisper /\ [][AddWhisper]_vars

\* --------------------------------------------- the glyph animation at length
\* Over many updates the intensity of a glyph is its intensity at the spawn
\* times 0.95 once per update: it is kept as [spawn, decays], and compared
\* with 0.1 exactly, on naturals written as sequences of digits of base 10000,
\* the lowest first.
MaxLongTicks == 50

\* x * m + carry, for 0 <= m <= 10000
RECURSIVE BigMul(_, _, _)
BigMul(x, m, carry) ==
    IF x = <<>>
    THEN IF carry = 0 THEN <<>> ELSE <<carry % 10000>> \o BigMul(<<>>, m, carry \div 10000)
    ELSE LET v == Head(x) * m + carry
         IN  <<v % 10000>> \o BigMul(Tail(x), m, v \div 10000)

RECURSIVE BigPow(_, _)
BigPow(b, n) == IF n = 0 THEN <<1>> ELSE BigMul(BigPow(b, n - 1), b, 0)

\* x < y below digit i + 1, for x and y of the same length
RECURSIVE BigLessAt(_, _, _)
BigLessAt(x, y, i) ==
    IF i = 0 THEN FALSE
    ELSE IF x[i] # y[i] THEN x[i] < y[i]
    ELSE BigLessAt(x, y, i - 1)

BigLess(x, y) == IF Len(x) # Len(y) THEN Len(x) < Len(y) ELSE BigLessAt(x, y, Len(x))

\* a threshold test at 0.05 in place of 0.1
AboveTwentieth(spawn, decays) ==
    BigLess(BigMul(BigPow(20, decays), spawn[2], 0), BigMul(BigPow(19, decays), 20 * spawn[1], 0))

\* line 97, glyph.intensity > 0.1, for intensity = spawn * 0.95^decays:
\* spawn[2] * 20^decays < 10 * spawn[1] * 19^decays
AboveTenth(spawn, decays) ==
    BigLess(BigMul(BigPow(20, decays), spawn[2], 0), BigMul(BigPow(19, decays), 10 * spawn[1], 0))

\* rx_rate and tx_rate, and the essence, of the entity animated at length:
\* flow_intensity is 1 or 0.11
LongRates == {<<RatInt(600), RatInt(500)>>, <<RatInt(70), RatInt(40)>>}
LongEssences == {<<24, 25>>, <<1, 2>>}

\* the intensities a glyph of these entities is spawned with
SpawnIntensities == {RatInt(1), <<11, 100>>} \cup LongEssences

\* the threshold test of every intensity a glyph of these entities goes through
AboveTenthTable ==
    [spawn \in SpawnIntensities |-> [decays \in 0..(MaxLongTicks + 1) |-> AboveTenth(spawn, decays)]]

\* NetworkEntity.update_glyphs on intensities kept as [spawn, decays]
update_glyphs_long(e, gd) ==
    LET decayed == [i \in 1..Len(e.glyphs) |->
                      [e.glyphs[i] EXCEPT !.age = @ + 1,
                                          !.intensity = [@ EXCEPT !.decays = @ + 1],
                                          !.char = Choice(Alphabet(e.glyphs[i].type), gd.char + i)]]
        active == SelectSeq(decayed,
                            LAMBDA g : AboveTenthTable[g.intensity.spawn][g.intensity.decays])
        flow_intensity ==
            RatDiv(RatMin(RatAdd(e.rx_rate, e.tx_rate), RatInt(MAX_FLOW)), RatInt(MAX_FLOW))
        withFlow ==
            IF RatLt(gd.r_flow, RatMul(flow_intensity, FLOW_CHANCE))
            THEN Append(active, Glyph("flow", [spawn |-> flow_intensity, decays |-> 0],
                                      gd.flow_pos, gd.flow_color))
            ELSE active
        withWhisper ==
            IF RatLt(gd.r_whisper, RatMul(e.essence, WHISPER_CHANCE))
            THEN Append(withFlow, Glyph("whisper", [spawn |-> e.essence, decays |-> 0],
                                        gd.whisper_pos, gd.whisper_color))
            ELSE withFlow
    IN  [e EXCEPT !.glyphs = withWhisper]

\* the draws of the generator in its three moods: both trials succeed, the
\* WHISPER trial alone, neither
LongDraws == <<SpawnAll, [SpawnAll EXCEPT !.r_flow = <<99, 100>>], NoSpawn>>

\* an entity scan_spirits has created and sampled, before its first update
InitLong ==
    /\ \E rates \in LongRates, essence \in LongEssences :
         entities = ("eth0" :>
            [NetworkEntity("eth0", [name |-> _generate_spirit_name("eth0", 0),
                                    aura |-> _generate_aura(0), essence |-> essence], 0)
               EXCEPT !.rx_rate = rates[1], !.tx_rate = rates[2]])
    /\ order = <<"eth0">>
    /\ pc = "animate"
    /\ now = 0
    /\ whispers = <<>>
    /\ last_update = 0
    /\ running = TRUE
    /\ config = MysticConfig(1)
    /\ current_time = 0
    /\ procNetDev = [readable |-> TRUE, lines |-> <<>>]
    /\ lastScan = NoScan
    /\ screen = DefaultScreen
    /\ frame = NoFrame
    /\ saved = <<>>
    /\ keys = <<>>
    /\ rng \in 1..Len(LongDraws)
    /\ cycles = 0
    /\ signalled = FALSE

\* one call of update_glyphs (line 356) on the entity; the generator stays
\* in its mood or goes to a later one
Animate ==
    /\ pc = "animate"
    /\ cycles < MaxLongTicks
    /\ entities' = [i \in DOMAIN entities |-> update_glyphs_long(entities[i], LongDraws[rng])]
    /\ rng' \in rng..Len(LongDraws)
    /\ cycles' = cycles + 1
    /\ UNCHANGED <<now, order, whispers, last_update, running, config, pc, current_time,
                   procNetDev, lastScan, screen, frame, saved, keys, signalled>>

SpecLong == InitLong /\ [][Animate]_vars

\* ------------------------------------------------ the cadence of the cycles
\* update_interval as the default (1 s) or as load_from_file may set it (2 s)
InitCadence ==
    \E interval \in {1, 2} : Start(MysticConfig(interval))

SpecCadence == InitCadence /\ [][Next]_vars

\* ------------------------------------------------- the loopback filter alone
\* the contents read: open() fails, eth0 alone, or lo and eth0
DevLoopback ==
    {[readable |-> FALSE, lines |-> <<>>],
     [readable |-> TRUE, lines |-> <<Row("eth0", "ok", 1000, 500)>>],
     [readable |-> TRUE, lines |-> <<Row("lo", "ok", 1000, 500), Row("eth0", "ok", 2000, 1500)>>]}

\* show_loopback as the default or as load_from_file may set it
InitLoopback ==
    \E b \in BOOLEAN : Start([MysticConfig(0) EXCEPT !.show_loopback = b])

NextLoopback ==
    \/ BeginRitual
    \/ Poll({"l"})
    \/ Scan(DevLoopback)
    \/ Draw
    \/ Stamp

SpecLoopback == InitLoopback /\ [][NextLoopback]_vars

\* ------------------------------------------------ the glyph animation alone
\* rx_rate and tx_rate of the entity that is animated
TickRates ==
    {<<Zero, Zero>>, <<RatInt(50), Zero>>, <<RatInt(70), RatInt(40)>>,
     <<RatInt(600), RatInt(500)>>, <<RatInt(-300), RatInt(100)>>}

\* essence as random.uniform(0.1, 1.0) draws it
Essences == {<<11, 100>>, <<1, 2>>, <<9, 10>>}

\* the draws of one update_glyphs call: nothing spawns, both trials succeed,
\* the FLOW trial alone, the WHISPER trial alone, or two draws of 0.1, which
\* are below the threshold of some entities only
TickDraws ==
    {NoSpawn, SpawnAll, [SpawnAll EXCEPT !.r_whisper = <<99, 100>>, !.flow_pos = <<0, 0>>],
     [SpawnAll EXCEPT !.r_flow = <<99, 100>>, !.whisper_pos = <<0, 5>>],
     [SpawnAll EXCEPT !.r_flow = <<1, 10>>, !.r_whisper = <<1, 10>>, !.flow_pos = <<10, 3>>]}

\* an entity scan_spirits has created and sampled, before its first tick
InitGlyph ==
    /\ \E rates \in TickRates, essence \in Essences :
         entities = ("eth0" :>
            [NetworkEntity("eth0", [name |-> _generate_spirit_name("eth0", 0),
                                    aura |-> _generate_aura(0), essence |-> essence], 0)
               EXCEPT !.rx_rate = rates[1], !.tx_rate = rates[2]])
    /\ order = <<"eth0">>
    /\ pc = "tick"
    /\ now = 0
    /\ whispers = <<>>
    /\ last_update = 0
    /\ running = TRUE
    /\ config = MysticConfig(1)
    /\ current_time = 0
    /\ procNetDev = [readable |-> TRUE, lines |-> <<>>]
    /\ lastScan = NoScan
    /\ screen = DefaultScreen
    /\ frame = NoFrame
    /\ saved = <<>>
    /\ keys = <<>>
    /\ rng = 1
    /\ cycles = 0
    /\ signalled = FALSE

\* one call of update_glyphs (line 356) on every tracked entity
Tick ==
    /\ pc = "tick"
    /\ cycles < MaxTicks
    /\ \E gd \in TickDraws :
         entities' = [i \in DOMAIN entities |-> update_glyphs(entities[i], gd)]
    /\ cycles' = cycles + 1
    /\ UNCHANGED <<now, order, whispers, last_update, running, config, pc, current_time,
                   procNetDev, lastScan, screen, frame, saved, keys, rng, signalled>>

NextGlyph == Tick

SpecGlyph == InitGlyph /\ [][NextGlyph]_vars

\* ------------------------------------------------------- the renderer alone
RenderNames == <<"lo", "eth0", "wlan0">>

\* rx_rate of a rendered entity: a counter that went back, an idle and two
\* busy interfaces
RenderRates == {RatInt(-500), Zero, RatInt(700), RatInt(3000)}

\* terminal sizes, narrow and short ones included
RenderScreens ==
    {[height |-> 24, width |-> 80], [height |-> 40, width |-> 100],
     [height |-> 13, width |-> 3], [height |-> 5, width |-> 10], [height |-> 10, width |-> 5]}

\* max_spirits as load_from_file may set it
RenderMaxSpirits == {0, 1, 2, 3, 20}

\* an entity after the scan that measured rx_rate rate
RenderEntity(i, rate) ==
    update_glyphs(
        RateWhisper([NetworkEntity(i, [name |-> _generate_spirit_name(i, 0),
                                       aura |-> _generate_aura(7), essence |-> <<1, 2>>], 0)
                       EXCEPT !.rx_rate = rate, !.tx_rate = RatInt(100),
                              !.rx_bytes = 1000, !.tx_bytes = 500]),
        SpawnAll)

\* run_ritual about to call draw_veil (line 644), on any registry content,
\* terminal size and max_spirits
InitRender ==
    /\ \E present \in SUBSET {RenderNames[j] : j \in 1..Len(RenderNames)} :
         /\ \E rates \in [present -> RenderRates] :
              entities = [i \in present |-> RenderEntity(i, rates[i])]
         /\ order = SelectSeq(RenderNames, LAMBDA x : x \in present)
    /\ screen \in RenderScreens
    /\ \E k \in RenderMaxSpirits, script \in BOOLEAN :
         config = [MysticConfig(1) EXCEPT !.max_spirits = k, !.ancient_script = script,
                                          !.show_loopback = TRUE]
    /\ pc = "draw"
    /\ now = 1
    /\ whispers = log_whisper(<<>>, "Mystic", "Beginning the ritual...", NoName, "INFO")
    /\ last_update = 0
    /\ running = TRUE
    /\ current_time = 1
    /\ procNetDev = [readable |-> TRUE, lines |-> <<>>]
    /\ lastScan = NoScan
    /\ frame = NoFrame
    /\ saved = <<>>
    /\ keys = <<>>
    /\ rng = 1
    /\ cycles = 1
    /\ signalled = FALSE

NextRender == Draw

SpecRender == InitRender /\ [][NextRender]_vars

\* ================================================================== claims
\* the interface ids a scan of the content dev observes: the names listed,
\* lo left out while show_loopback is off
Observed(dev, show_loopback) ==
    {dev.lines[j].iface : j \in {k \in 1..Len(dev.lines) :
        dev.lines[k].kind # "blank" /\ (dev.lines[k].iface # "lo" \/ show_loopback)}}

\* the line of interface i in the content dev
LineOf(dev, i) == dev.lines[CHOOSE j \in 1..Len(dev.lines) : dev.lines[j].iface = i]

\* a step that is a call of scan_spirits
ScanStep == pc = "scan" /\ pc' = "draw"

LogIndex == 1..Len(whispers)

\* --- C1: after every scan that was processed, the keys of the registry are
\* the interface ids observed in that scan (lo filtered while hidden),
\* rows with too few fields included.
\* Stated for the scans that end without an error; the code violates it.
RegistryIsObserved ==
    (pc = "draw" /\ lastScan.status = "ok")
        => DOMAIN entities = Observed(procNetDev, config.show_loopback)

\* --- C2: a scan that samples an already-tracked entity with
\* dt = now - last_seen > 0 leaves it with rx_rate = (newRx - oldRx) / dt and
\* tx_rate = (newTx - oldTx) / dt.  The code divides by the time since the
\* last cycle instead, so the formula is violated.
RateOverLastSeen ==
    [][ScanStep =>
         \A i \in (lastScan'.sampled \ lastScan'.fresh) :
            (now - entities[i].last_seen > 0) =>
               /\ entities'[i].rx_rate =
                    Rat(entities'[i].rx_bytes - entities[i].rx_bytes, now - entities[i].last_seen)
               /\ entities'[i].tx_rate =
                    Rat(entities'[i].tx_bytes - entities[i].tx_bytes, now - entities[i].last_seen)]_vars

\* --- C3: an entity sampled when no time has passed, be it since its
\* previous sample (now - last_seen) or since the last cycle (the time_diff
\* of the code), keeps rx_rate and tx_rate exactly, while its counters and
\* last_seen take the new sample.
ZeroDtKeepsRates ==
    [][ScanStep =>
         \A i \in (lastScan'.sampled \ lastScan'.fresh) :
            (now - entities[i].last_seen <= 0 \/ now - last_update <= 0) =>
               /\ entities'[i].rx_rate = entities[i].rx_rate
               /\ entities'[i].tx_rate = entities[i].tx_rate
               /\ entities'[i].rx_bytes = LineOf(procNetDev', i).rx
               /\ entities'[i].tx_bytes = LineOf(procNetDev', i).tx
               /\ entities'[i].last_seen = now]_vars

\* C3 witness: a scan in the second of the previous one sampled a tracked
\* entity whose rate is not zero
ZeroDtSampled ==
    /\ pc = "draw"
    /\ lastScan.time_diff = 0
    /\ \E i \in (lastScan.sampled \ lastScan.fresh) :
         entities[i].last_seen = now /\ entities[i].rx_rate # Zero

\* --- C4: an interface tracked before a scan and not listed in it is out of
\* the registry after the scan, with a removal message in the log; an
\* interface that enters the registry comes as a new entity (creation
\* message, counters and rates as the first sample of a new entity gives
\* them, no glyph older than this scan, at most the one status message of
\* this scan), whatever an entity of that name held before.
\* Stated for the scans that end without an error.
AbsentRemovedFreshReturns ==
    [][(ScanStep /\ lastScan'.status = "ok") =>
         /\ \A i \in DOMAIN entities \ Observed(procNetDev', config.show_loopback) :
              /\ i \notin DOMAIN entities'
              /\ \E j \in (Len(whispers) + 1)..Len(whispers') :
                   whispers'[j].msg = "has faded" /\ whispers'[j].about = entities[i].name
         /\ \A i \in DOMAIN entities' \ DOMAIN entities :
              /\ i \in lastScan'.fresh
              /\ \E j \in (Len(whispers) + 1)..Len(whispers') :
                   whispers'[j].msg = "has appeared" /\ whispers'[j].about = entities'[i].name
              /\ entities'[i].rx_bytes = LineOf(procNetDev', i).rx
              /\ entities'[i].tx_bytes = LineOf(procNetDev', i).tx
              /\ entities'[i].rx_rate =
                   IF now - last_update > 0
                   THEN Rat(LineOf(procNetDev', i).rx, now - last_update) ELSE Zero
              /\ entities'[i].tx_rate =
                   IF now - last_update > 0
                   THEN Rat(LineOf(procNetDev', i).tx, now - last_update) ELSE Zero
              /\ entities'[i].last_seen = now
              /\ Len(entities'[i].whispers) <= 1
              /\ \A k \in 1..Len(entities'[i].glyphs) : entities'[i].glyphs[k].age = 0]_vars

\* C4 witness: the log shows an interface that faded and appeared again, and
\* it is tracked
FadedAndBack ==
    \E i \in DOMAIN entities :
       \E j \in LogIndex, k \in LogIndex :
          /\ j < k
          /\ whispers[j].msg = "has faded" /\ whispers[j].about.interface = i
          /\ whispers[k].msg = "has appeared" /\ whispers[k].about.interface = i

\* --- C5: after every update_glyphs call no glyph of intensity <= 0.1 is in
\* the collection of its owner.  The code appends the glyphs it spawns after
\* the filter, whatever their intensity, so the formula is violated.
NoFaintGlyph ==
    \A i \in DOMAIN entities :
       \A k \in 1..Len(entities[i].glyphs) :
          RatLt(<<1, 10>>, entities[i].glyphs[k].intensity)

\* the glyphs of old that a decay by 0.95 leaves above 0.1
KeptGlyphs(old) == SelectSeq(old, LAMBDA g : RatLt(<<1, 10>>, RatMul(g.intensity, <<19, 20>>)))

\* new is old after one update_glyphs call: the glyphs kept are old ones with
\* intensity * 0.95 and age + 1, in order, followed by at most two new ones
DecayedOnce(old, new) ==
    LET kept == KeptGlyphs(old)
    IN  /\ Len(new) >= Len(kept)
        /\ Len(new) <= Len(kept) + 2
        /\ \A k \in 1..Len(kept) :
             /\ new[k].intensity = RatMul(kept[k].intensity, <<19, 20>>)
             /\ RatLe(new[k].intensity, kept[k].intensity)
             /\ new[k].age = kept[k].age + 1
             /\ new[k].type = kept[k].type
             /\ new[k].position = kept[k].position
             /\ new[k].color_pair = kept[k].color_pair
        /\ \A k \in (Len(kept) + 1)..Len(new) : new[k].age = 0

\* --- C6: every update_glyphs call multiplies the intensity of each glyph
\* the entity holds by 0.95 and adds 1 to its age, so the intensity of a
\* glyph never increases; no other step of the program changes or removes a
\* glyph of a tracked entity.
GlyphsOnlyDecay ==
    [][\A i \in DOMAIN entities \cap DOMAIN entities' :
          IF ScanStep /\ i \in lastScan'.sampled
          THEN DecayedOnce(entities[i].glyphs, entities'[i].glyphs)
          ELSE entities'[i].glyphs = entities[i].glyphs]_vars

\* C6 witness: a tracked entity holds a glyph that has been through a decay
GlyphDecayed ==
    \E i \in DOMAIN entities :
       \E k \in 1..Len(entities[i].glyphs) :
          /\ entities[i].glyphs[k].age >= 1
          /\ RatLt(entities[i].glyphs[k].intensity, <<11, 100>>)

BlocksDrawn == {frame.blocks[j] : j \in 1..Len(frame.blocks)}

\* --- C7: a render with max_spirits = k draws at most k entity blocks, and
\* no entity is drawn while one with a strictly larger rx_rate + tx_rate is
\* left out, for every registry content and screen height.
TopSpiritsDrawn ==
    pc = "stamp" =>
       /\ Len(frame.blocks) <= config.max_spirits
       /\ Cardinality(BlocksDrawn) = Len(frame.blocks)
       /\ BlocksDrawn \subseteq DOMAIN entities
       /\ \A d \in BlocksDrawn, u \in DOMAIN entities \ BlocksDrawn :
            ~RatLt(RateSum(entities[d]), RateSum(entities[u]))

\* C7 witness: max_spirits cut the list: fewer blocks than entities, as many
\* as max_spirits, the entity left out being strictly slower than one drawn
CutByMaxSpirits ==
    /\ pc = "stamp"
    /\ Len(frame.blocks) = config.max_spirits
    /\ \E d \in BlocksDrawn, u \in DOMAIN entities \ BlocksDrawn :
         /\ RatLt(RateSum(entities[u]), RateSum(entities[d]))
         /\ \E j \in 1..Len(order), k \in 1..Len(order) :
              j < k /\ order[j] = u /\ order[k] = d

\* --- C8: draw_veil raises nothing to its caller and runs to its end
\* (screen.refresh) on every grid size and entity state; a write outside the
\* grid is no error of the frame.
RenderCompletes ==
    pc = "stamp" => (frame.refreshed /\ ~frame.raised)

\* the calls of the block of entity number j of the frame
StepsOfBlock(j) ==
    BlockSteps(entities[frame.blocks[j]], 2 + 9 * (j - 1), screen, <<>>, config.ancient_script)

\* C8 witness: a frame on a grid narrower than its content, in which a call
\* of an entity block raised
SmallGridRendered ==
    /\ pc = "stamp"
    /\ frame.refreshed
    /\ \E j \in 1..Len(frame.blocks) : Raising(StepsOfBlock(j), screen) # {}

\* --- C9: a write outside the grid is dropped alone: every write of the
\* frame whose target is inside the grid is produced, whatever was dropped
\* before it in the same entity block.  The code leaves a block at the first
\* failing call that has no try of its own, so the formula is violated.
InGridWritesProduced ==
    pc = "stamp" =>
       \A j \in 1..Len(frame.blocks) :
          /\ \A n \in 1..Len(StepsOfBlock(j)) :
               InGrid(screen, StepsOfBlock(j)[n].w.y, StepsOfBlock(j)[n].w.x)
                  => StepsOfBlock(j)[n].w \in frame.writes
          /\ GlyphOverlay(entities[frame.blocks[j]], 2 + 9 * (j - 1), screen) \subseteq frame.writes

\* --- C10: draw_veil leaves the domain state as it was: the registry, every
\* field of every entity, the global log, the configuration and the cycle
\* timer.
RenderChangesNothing ==
    [][(pc = "draw" /\ pc' = "stamp")
          => UNCHANGED domain]_vars

\* C10 witness: a frame with an entity block and its glyphs has been drawn
BlockRendered ==
    /\ pc = "stamp"
    /\ \E j \in 1..Len(frame.blocks) : entities[frame.blocks[j]].glyphs # <<>>
    /\ \E w \in frame.writes : w.what = "glyph"

\* the content dev has a well-formed line for interface i
ListsOk(dev, i) ==
    \E j \in 1..Len(dev.lines) : dev.lines[j].iface = i /\ dev.lines[j].kind = "ok"

\* --- C11: after a scan processed while show_loopback is false, lo is not
\* tracked (a tracked lo is removed by that scan); while show_loopback is
\* true (the l key toggled it), a scan whose source lists lo leaves lo
\* tracked.  Stated for the scans that end without an error.
LoopbackFollowsFlag ==
    [][(ScanStep /\ lastScan'.status = "ok") =>
         /\ ~config.show_loopback => "lo" \notin DOMAIN entities'
         /\ (config.show_loopback /\ ListsOk(procNetDev', "lo")) => "lo" \in DOMAIN entities']_vars

\* C11 witness: lo was tracked, the l key hid the loopback spirits, and the
\* scan after it removed lo
LoopbackHiddenAndGone ==
    /\ pc = "draw"
    /\ ~config.show_loopback
    /\ "lo" \notin DOMAIN entities
    /\ \E j \in LogIndex, k \in LogIndex, n \in LogIndex :
          /\ j < k /\ k < n
          /\ whispers[j].msg = "has appeared" /\ whispers[j].about.interface = "lo"
          /\ whispers[k].msg = "Loopback spirits hidden"
          /\ whispers[n].msg = "has faded" /\ whispers[n].about.interface = "lo"

\* --- C12: when /proc/net/dev cannot be read at all, scan_spirits returns to
\* the loop without raising, logs an error message, and leaves the registry
\* and every field of every entity (counters, rates, messages, glyphs) as
\* they were; the loop goes on with the rest of the iteration.
ReadFailureKeepsState ==
    [][(ScanStep /\ ~procNetDev'.readable) =>
         /\ entities' = entities
         /\ order' = order
         /\ running' = running
         /\ lastScan'.status = "error"
         /\ \E j \in (Len(whispers) + 1)..Len(whispers') :
               /\ whispers'[j].source = "Scanner"
               /\ whispers'[j].level = "ERROR"
               /\ whispers'[j].msg = "Failed to scan"]_vars

\* C12 witness: a scan failed to read the source while an entity with a
\* rate, a message and a glyph was tracked, and the loop went on to the next
\* iteration
ReadFailedWhileTracking ==
    /\ pc = "loop"
    /\ running
    /\ ~procNetDev.readable
    /\ lastScan.status = "error"
    /\ \E i \in DOMAIN entities :
          /\ entities[i].glyphs # <<>>
          /\ entities[i].whispers # <<>>
          /\ entities[i].rx_rate # Zero

\* the intensity update_glyphs gives a FLOW glyph it spawns for entity e
FlowIntensity(e) ==
    RatDiv(RatMin(RatAdd(e.rx_rate, e.tx_rate), RatInt(MAX_FLOW)), RatInt(MAX_FLOW))

\* --- C13: an iteration of the loop runs a sample cycle iff the time since
\* the last cycle is >= update_interval; the cycle goes sample, glyph update
\* (made on the rates of the new sample), render, and then resets the cycle
\* timer to the time of the cycle, so that the next cycle starts at least
\* update_interval after this one; iterations that run no cycle change no
\* entity.
CycleCadence ==
    [][/\ (pc = "loop" /\ pc' \in {"loop", "scan"})
           => /\ (pc' = "scan") <=> (now' - last_update >= config.update_interval)
              /\ entities' = entities /\ order' = order /\ frame' = frame
       /\ (pc = "scan" /\ pc' # "scan")
           => /\ pc' = "draw"
              /\ now - last_update >= config.update_interval
              /\ \A i \in lastScan'.sampled :
                    \A k \in 1..Len(entities'[i].glyphs) :
                       (entities'[i].glyphs[k].age = 0 /\ entities'[i].glyphs[k].type = "flow")
                          => entities'[i].glyphs[k].intensity = FlowIntensity(entities'[i])
       /\ (pc = "draw" /\ pc' # "draw")
           => /\ pc' = "stamp"
              /\ entities' = entities
              /\ frame'.refreshed
              /\ \A j \in 1..Len(frame'.blocks) : frame'.blocks[j] \in DOMAIN entities
       /\ (pc = "stamp" /\ pc' # "stamp")
           => pc' = "loop" /\ last_update' = current_time /\ current_time = now
       /\ (last_update' # last_update) => pc = "stamp"
       /\ (frame' # frame) => pc = "draw"
       /\ (entities' # entities) => pc = "scan"]_vars

\* C13 witness: with update_interval 2 a cycle starts at time 2, after an
\* iteration at time 1 that ran none
CycleAfterWaiting ==
    /\ pc = "scan"
    /\ config.update_interval = 2
    /\ now = 2
    /\ last_update = 0
    /\ cycles = 0

\* the q key has been read
QuitRead == \E j \in 1..Len(keys) : keys[j] = "q"

\* --- C14: once q is read, running is false and stays false; the iteration
\* in progress finishes (a due sample cycle included) and no further one
\* begins; the state is flushed (cleanup, save_mysteries) only after the loop
\* has exited; the program always gets out of the loop and to its end.
QuitEndsLoop ==
    /\ [](QuitRead => ~running)
    /\ [][/\ QuitRead => (keys' = keys /\ current_time' = current_time /\ now' = now)
          /\ (QuitRead /\ pc = "loop") => pc' \in {"loop", "cleanup"}
          /\ (saved' # saved) => (pc \in {"cleanup", "atexit"} /\ ~running)]_vars
    /\ (QuitRead ~> (pc = "done"))

\* C14 witness: q was read in an iteration whose sample cycle was due, and
\* the scan of that cycle has run with running already false
QuitWithCycleDue ==
    /\ pc = "draw"
    /\ QuitRead
    /\ ~signalled
    /\ ~running
    /\ lastScan.status = "ok"
    /\ cycles = 1

\* --- C15: a SIGINT or SIGTERM delivered at any moment after main has
\* installed the handlers sets running to false for good, so the loop is left
\* after the iteration in progress: once a signal has been delivered, running
\* is false in every later state.
SignalStopsLoop == signalled => ~running

\* --- C16: a run that ends by quit or signal appends exactly one snapshot
\* to the configured log file (no write failing), and appends nothing when
\* no log file is configured.
OneSnapshotPerRun ==
    pc = "done" =>
        IF config.log_file = "" THEN saved = <<>>
        ELSE (\A j \in 1..Len(whispers) : whispers[j].source # "Archivist") => Len(saved) = 1

\* --- C17: after the scan that creates an entity (its first sample) its
\* rx_rate and tx_rate still have their initial value 0; a rate is derived
\* only from the second sample on.
FirstSampleLeavesRatesZero ==
    [][ScanStep =>
         \A i \in lastScan'.fresh :
            /\ entities'[i].rx_rate = Zero
            /\ entities'[i].tx_rate = Zero]_vars

\* --- C18: in every sample cycle update_glyphs runs for every tracked
\* entity: each entity in the registry after a scan is one whose line went
\* through the loop body down to update_glyphs (lastScan.sampled) in that
\* scan.  Stated for the scans that end without an error.
GlyphUpdateForEveryTracked ==
    [][(ScanStep /\ lastScan'.status = "ok") =>
          \A i \in DOMAIN entities' : i \in lastScan'.sampled]_vars

\* --- C19: the message list of an entity never holds more than 5 entries
\* after any sequence of add_whisper calls; a call on a full list evicts the
\* oldest message, and the messages that remain keep their order, the new
\* one last.
WhisperListBounded ==
    [][\A i \in DOMAIN entities \cap DOMAIN entities' :
          LET w == entities[i].whispers
              v == entities'[i].whispers
              gone == Len(w) + 1 - Len(v)
          IN  /\ Len(v) <= 5
              /\ (pc = "whisper" /\ cycles' # cycles) =>
                    /\ Len(v) = IF Len(w) < 5 THEN Len(w) + 1 ELSE 5
                    /\ \A j \in 1..(Len(v) - 1) : v[j] = w[j + gone]
                    /\ v[Len(v)] \in WhisperTexts]_vars

\* C19 witness: a 6th message and a 7th were added to one entity; its list
\* holds 5 messages that are not all the same
SixthWhisperAdded ==
    /\ pc = "whisper"
    /\ cycles = 7
    /\ Len(entities["eth0"].whispers) = 5
    /\ entities["eth0"].whispers[1] # entities["eth0"].whispers[5]

\* --- C20: from its creation until its removal an entity keeps its essence,
\* its display name and its aura, whatever scans, glyph updates, key commands
\* and renders happen; the essence assigned at creation is in [0.1, 1.0).
EssenceNameAuraFixed ==
    [][/\ \A i \in DOMAIN entities \cap DOMAIN entities' :
             /\ entities'[i].essence = entities[i].essence
             /\ entities'[i].name = entities[i].name
             /\ entities'[i].aura = entities[i].aura
       /\ \A i \in DOMAIN entities' :
             /\ RatLe(<<1, 10>>, entities'[i].essence)
             /\ RatLt(entities'[i].essence, RatInt(1))]_vars

\* C20 witness: an entity has been through two scans, a glyph update that
\* left it a glyph, a key command and a render
EntityLivedOn ==
    /\ pc = "stamp"
    /\ cycles >= 2
    /\ Len(keys) >= 1
    /\ "eth0" \in lastScan.sampled \ lastScan.fresh
    /\ entities["eth0"].glyphs # <<>>
    /\ frame.refreshed

\* --- C21: whenever a scan ends in an error, be it the source unreadable or
\* a row that cannot be processed, the registry and every entity (counters,
\* rates, last_seen, messages, glyphs) are as before that scan; a scan never
\* leaves the registry partly updated.
FailedScanRetainsState ==
    [][(ScanStep /\ lastScan'.status = "error") =>
         /\ entities' = entities
         /\ order' = order]_vars

\* clamp(x, 0, 1)
Clamp01(x) == IF RatLt(x, Zero) THEN Zero ELSE IF RatLt(RatInt(1), x) THEN RatInt(1) ELSE x

\* the glyphs a call of update_glyphs appended: those after the kept ones
SpawnedBy(old, new) == SubSeq(new, Len(KeptGlyphs(old)) + 1, Len(new))

\* type, intensity and position of the glyphs in sequence gs
Shapes(gs) ==
    [k \in 1..Len(gs) |->
        [type |-> gs[k].type, intensity |-> gs[k].intensity, position |-> gs[k].position]]

\* --- C22: each update_glyphs call appends at most two glyphs, by two
\* independent trials: a FLOW glyph iff its draw is below flowIntensity * 0.3,
\* with intensity flowIntensity = clamp((rx_rate + tx_rate) / 1000, 0, 1), and
\* a WHISPER glyph iff its draw is below essence * 0.2, with intensity
\* essence; no FLOW glyph with total rate <= 0; every spawned glyph has
\* intensity in (0, 1] and a position with x in 0..20, y in 0..5.
SpawnByTwoTrials ==
    [][(pc = "tick" /\ cycles' # cycles) =>
         \A i \in DOMAIN entities :
            LET e == entities[i]
                spawned == SpawnedBy(e.glyphs, entities'[i].glyphs)
                flowIntensity == Clamp01(RatDiv(RatAdd(e.rx_rate, e.tx_rate), RatInt(1000)))
            IN  /\ Len(spawned) <= 2
                /\ \E gd \in TickDraws :
                      Shapes(spawned) =
                         (IF RatLt(gd.r_flow, RatMul(flowIntensity, <<3, 10>>))
                          THEN <<[type |-> "flow", intensity |-> flowIntensity,
                                  position |-> gd.flow_pos]>>
                          ELSE <<>>)
                         \o (IF RatLt(gd.r_whisper, RatMul(e.essence, <<1, 5>>))
                             THEN <<[type |-> "whisper", intensity |-> e.essence,
                                     position |-> gd.whisper_pos]>>
                             ELSE <<>>)
                /\ RatLe(RatAdd(e.rx_rate, e.tx_rate), Zero) =>
                      \A k \in 1..Len(spawned) : spawned[k].type # "flow"
                /\ \A k \in 1..Len(spawned) :
                      /\ RatLt(Zero, spawned[k].intensity)
                      /\ RatLe(spawned[k].intensity, RatInt(1))
                      /\ spawned[k].position[1] \in 0..20
                      /\ spawned[k].position[2] \in 0..5]_vars

\* C22 witness: the first call on an entity with a positive total rate
\* spawned a WHISPER glyph and no FLOW glyph
WhisperAloneSpawned ==
    /\ pc = "tick"
    /\ cycles = 1
    /\ RatLt(Zero, RatAdd(entities["eth0"].rx_rate, entities["eth0"].tx_rate))
    /\ Len(entities["eth0"].glyphs) = 1
    /\ entities["eth0"].glyphs[1].type = "whisper"
    /\ entities["eth0"].glyphs[1].intensity = entities["eth0"].essence

\* --- C23: after every update_glyphs call, every glyph in the collection of
\* an entity, and so every glyph the render overlays, has a display character
\* of the alphabet of its kind.
GlyphCharInAlphabet ==
    \A i \in DOMAIN entities :
       \A k \in 1..Len(entities[i].glyphs) :
          \E n \in 1..Len(Alphabet(entities[i].glyphs[k].type)) :
             entities[i].glyphs[k].char = Alphabet(entities[i].glyphs[k].type)[n]

\* --- C24: the glyphs of one entity are bounded after any sequence of
\* updates: a glyph is held for at most 44 updates after the one that
\* spawned it, and an entity never holds more than 90 glyphs.
GlyphCountBounded ==
    \A i \in DOMAIN entities :
       /\ Len(entities[i].glyphs) <= 90
       /\ \A k \in 1..Len(entities[i].glyphs) : entities[i].glyphs[k].age <= 44

\* C24 witness: an entity holds 90 glyphs, the oldest spawned 44 updates ago
NinetyGlyphsHeld ==
    /\ pc = "animate"
    /\ Len(entities["eth0"].glyphs) = 90
    /\ entities["eth0"].glyphs[1].age = 44

====
